---- MODULE Spec2Model ----
(***************************************************************************)
(* CYD MIDI controller: the mode orchestrator (setup / loop / enterMode /  *)
(* exitToMenu), the menu grid geometry (drawMenu / handleMenuTouch) and    *)
(* the BLE connection callbacks (MIDICallbacks) with the all-notes-off     *)
(* sweep, as in src/CYD-MIDI-Controller.ino.                               *)
(*                                                                         *)
(* Two contexts run concurrently: the Arduino loop task (setup, then       *)
(* loop() for ever) and the BLE stack's task, which delivers onConnect     *)
(* and onDisconnect one at a time.  Each context is a sequence of steps    *)
(* (loopPc, cbPc); steps of the two contexts interleave freely.            *)
(***************************************************************************)
EXTENDS Integers, Sequences, FiniteSets, TLC

(***************************************************************************)
(* AppMode and the registry                                                *)
(***************************************************************************)
MENU == "MENU"

\* apps[] (0-based in the source, 1-based here: entry i of the source is apps[i+1])
apps ==
  << [name |-> "KEYS",   mode |-> "KEYBOARD"],
     [name |-> "BEATS",  mode |-> "SEQUENCER"],
     [name |-> "ZEN",    mode |-> "BOUNCING_BALL"],
     [name |-> "DROP",   mode |-> "PHYSICS_DROP"],
     [name |-> "RNG",    mode |-> "RANDOM_GENERATOR"],
     [name |-> "XY PAD", mode |-> "XY_PAD"],
     [name |-> "ARP",    mode |-> "ARPEGGIATOR"],
     [name |-> "GRID",   mode |-> "GRID_PIANO"],
     [name |-> "CHORD",  mode |-> "AUTO_CHORD"],
     [name |-> "LFO",    mode |-> "LFO"] >>

\* the mutant of numApps: the count misses the last entry
numApps_Short == Len(apps) - 1

numApps == 10

MAX_APPS == 12

\* a read of apps[i].mode past the end of the array: any value may come back
INVALID_MODE == "INVALID"

\* the mutant of ModeOfEntry: an off-by-one index into apps[]
ModeOfEntry_OffByOne(i) ==
  IF i + 2 <= Len(apps) THEN apps[i + 2].mode ELSE INVALID_MODE

\* apps[i].mode as handleMenuTouch reads it (i is the source's 0-based index)
ModeOfEntry(i) == apps[i + 1].mode

RegisteredModes == { apps[k].mode : k \in 1..Len(apps) }

\* the case labels of loop()'s switch
LoopCases ==
  { MENU, "KEYBOARD", "SEQUENCER", "BOUNCING_BALL", "PHYSICS_DROP",
    "RANDOM_GENERATOR", "XY_PAD", "ARPEGGIATOR", "GRID_PIANO", "AUTO_CHORD",
    "LFO" }

\* the values of AppMode: MENU and the instrument modes the source names
AppMode == LoopCases

\* the per-tick handler loop() calls for each case
HandlerOf(m) ==
  CASE m = "KEYBOARD"         -> "handleKeyboardMode"
    [] m = "SEQUENCER"        -> "handleSequencerMode"
    [] m = "BOUNCING_BALL"    -> "handleBouncingBallMode"
    [] m = "PHYSICS_DROP"     -> "handlePhysicsDropMode"
    [] m = "RANDOM_GENERATOR" -> "handleRandomGeneratorMode"
    [] m = "XY_PAD"           -> "handleXYPadMode"
    [] m = "ARPEGGIATOR"      -> "handleArpeggiatorMode"
    [] m = "GRID_PIANO"       -> "handleGridPianoMode"
    [] m = "AUTO_CHORD"       -> "handleAutoChordMode"
    [] m = "LFO"              -> "handleLFOMode"
    [] OTHER                  -> "none"

\* the cases of enterMode()'s switch: the draw routine of each mode
EnterCases ==
  { "KEYBOARD", "SEQUENCER", "BOUNCING_BALL", "PHYSICS_DROP",
    "RANDOM_GENERATOR", "XY_PAD", "ARPEGGIATOR", "GRID_PIANO", "AUTO_CHORD",
    "LFO" }

\* the modes whose initialize...Mode() setup() calls
SetupInitialized ==
  { "KEYBOARD", "SEQUENCER", "BOUNCING_BALL", "RANDOM_GENERATOR", "XY_PAD",
    "ARPEGGIATOR", "GRID_PIANO", "AUTO_CHORD", "LFO" }

(***************************************************************************)
(* Menu grid geometry.  drawMenu and handleMenuTouch each compute the cell *)
(* of icon i from their own local constants.                               *)
(***************************************************************************)
SCREEN_W == 320

SCREEN_H == 240

drawMenu_iconSize == 40

drawMenu_spacing == 8

drawMenu_cols == 5

drawMenu_startX ==
  (SCREEN_W - (drawMenu_cols * drawMenu_iconSize
               + (drawMenu_cols - 1) * drawMenu_spacing)) \div 2

drawMenu_startY == 65

drawMenu_col(i) == i % drawMenu_cols

drawMenu_row(i) == i \div drawMenu_cols

\* the (x, y, w, h) at which drawMenu draws icon i
drawMenu_rect(i) ==
  [ x |-> drawMenu_startX + drawMenu_col(i) * (drawMenu_iconSize + drawMenu_spacing),
    y |-> drawMenu_startY + drawMenu_row(i) * (drawMenu_iconSize + drawMenu_spacing + 15),
    w |-> drawMenu_iconSize,
    h |-> drawMenu_iconSize ]

handleMenuTouch_iconSize == 40

handleMenuTouch_spacing == 8

handleMenuTouch_cols == 5

handleMenuTouch_startX ==
  (SCREEN_W - (handleMenuTouch_cols * handleMenuTouch_iconSize
               + (handleMenuTouch_cols - 1) * handleMenuTouch_spacing)) \div 2

handleMenuTouch_startY == 65

\* the mutant of handleMenuTouch_row: the column is used where the row is meant
handleMenuTouch_row_UsesCol(i) == i % handleMenuTouch_cols

handleMenuTouch_col(i) == i % handleMenuTouch_cols

handleMenuTouch_row(i) == i \div handleMenuTouch_cols

\* the mutant of handleMenuTouch_rect: the hit-tester forgets the 15 pixels
\* of the label under each row
handleMenuTouch_rect_NoLabel(i) ==
  [ x |-> handleMenuTouch_startX
            + handleMenuTouch_col(i) * (handleMenuTouch_iconSize + handleMenuTouch_spacing),
    y |-> handleMenuTouch_startY
            + handleMenuTouch_row(i) * (handleMenuTouch_iconSize + handleMenuTouch_spacing),
    w |-> handleMenuTouch_iconSize,
    h |-> handleMenuTouch_iconSize ]

\* the (x, y, w, h) handleMenuTouch hands to isButtonPressed for entry i
handleMenuTouch_rect(i) ==
  [ x |-> handleMenuTouch_startX
            + handleMenuTouch_col(i) * (handleMenuTouch_iconSize + handleMenuTouch_spacing),
    y |-> handleMenuTouch_startY
            + handleMenuTouch_row(i) * (handleMenuTouch_iconSize + handleMenuTouch_spacing + 15),
    w |-> handleMenuTouch_iconSize,
    h |-> handleMenuTouch_iconSize ]

\* isButtonPressed(x, y, w, h): the touch point lies in the rectangle, edges
\* included (ui_elements.h)
isButtonPressed(t, r) ==
  /\ t.x >= r.x /\ t.x <= r.x + r.w
  /\ t.y >= r.y /\ t.y <= r.y + r.h

\* the for loop of handleMenuTouch from index i on, over a registry of n
\* entries: the first index whose cell is pressed, or -1 when the loop ends
RECURSIVE handleMenuTouch_from(_, _, _)
handleMenuTouch_from(i, n, t) ==
  IF i >= n THEN -1
  ELSE IF isButtonPressed(t, handleMenuTouch_rect(i)) THEN i
  ELSE handleMenuTouch_from(i + 1, n, t)

\* the mutant of handleMenuTouch_hit: the loop starts one entry late
handleMenuTouch_hit_SkipsFirst(n, t) == handleMenuTouch_from(1, n, t)

handleMenuTouch_hit(n, t) == handleMenuTouch_from(0, n, t)

Centre(r) == [ x |-> r.x + r.w \div 2, y |-> r.y + r.h \div 2 ]

\* the pixels fillRoundRect(x, y, w, h) paints: x .. x+w-1 by y .. y+h-1
Pixels(r) == { [x |-> px, y |-> py] : px \in r.x .. (r.x + r.w - 1),
                                      py \in r.y .. (r.y + r.h - 1) }

(***************************************************************************)
(* Inputs of the model                                                     *)
(***************************************************************************)
\* the icons the touch controller's points are taken from: the first entry,
\* the one mode setup() does not initialise, index 7 (row 1, col 2) and the
\* last entry
SampleIcons == { 0, 3, 7, 9 }

\* the step of the grid of display points SpecGeom taps
SampleStep == 8

\* display points on a grid of SampleStep pixels
GridPoints ==
  { [x |-> px, y |-> py] :
      px \in { a \in 0 .. (SCREEN_W - 1) : a % SampleStep = 0 },
      py \in { b \in 0 .. (SCREEN_H - 1) : b % SampleStep = 0 } }

\* the points the touch controller reports: the centres of the sample icons
\* as drawn, the header and the gap between icons 0 and 1
TouchPoints ==
  { Centre(drawMenu_rect(i)) : i \in SampleIcons }
    \cup { [x |-> 160, y |-> 25], [x |-> 88, y |-> 85] }

(***************************************************************************)
(* The MIDI sink: sendMIDI(status, data1, data2)                           *)
(***************************************************************************)
NOTE_ON == 144

NOTE_OFF == 128

\* a | b on non-negative integers
RECURSIVE BitOr(_, _)
BitOr(a, b) ==
  IF a = 0 THEN b
  ELSE IF b = 0 THEN a
  ELSE (IF a % 2 = 1 \/ b % 2 = 1 THEN 1 ELSE 0)
         + 2 * BitOr(a \div 2, b \div 2)

\* the status byte of a message kind on a channel: kind | channel
StatusByte(kind, channel) == BitOr(kind, channel)

\* the message sendNote hands to the transports for a MIDI event
sendNote_message(e) == << StatusByte(e.kind, e.channel), e.note, e.velocity >>

\* uint8_t midiPacket[]: the BLE MIDI packet template (header, timestamp,
\* status, data1, data2)
midiPacket == << 128, 128, 0, 96, 127 >>

\* the mutant of sendMIDI_packet: the template is notified as it is
sendMIDI_packet_Stale(msg) == midiPacket

\* the packet sendMIDI notifies: the template's header and timestamp, then
\* the three bytes of the message
sendMIDI_packet(msg) ==
  << midiPacket[1], midiPacket[2], msg[1], msg[2], msg[3] >>

\* the packets one sendMIDI notifies on BLE: one when a peer is connected,
\* none otherwise
sendMIDI_ble(connected, msg) ==
  IF connected THEN << sendMIDI_packet(msg) >> ELSE << >>

\* the byte triples one sendMIDI writes to MIDISerial
sendMIDI_wired(msg) == << msg >>


\* the mutant of onDisconnect_message: the sweep sends NoteOn
onDisconnect_message_NoteOn(i) == << NOTE_ON, i, 0 >>

\* the arguments of the sendMIDI call in onDisconnect's for loop
onDisconnect_message(i) == << 128, i, 0 >>

\* the bound of onDisconnect's for loop
onDisconnect_limit == 128

\* the event a mode's per-tick handler sends when it plays a note
ModeEvent == [ kind |-> NOTE_ON, channel |-> 0, note |-> 60, velocity |-> 127 ]

\* the message of that event
ModeMessage == sendNote_message(ModeEvent)

(***************************************************************************)
(* State                                                                   *)
(***************************************************************************)
VARIABLES
  currentMode,     \* AppMode currentMode
  deviceConnected, \* bool deviceConnected
  touch,           \* TouchState touch
  screen,          \* what the display shows: "blank", MENU or a mode
  menuRects,       \* the icon rectangles the last drawMenu painted
  initialized,     \* the modes whose initialize...Mode() has run
  playing,         \* a mode has notes or timers scheduled
  loopPc,          \* the loop task's position
  enterArg,        \* enterMode's parameter, while enterMode runs
  exitIdx,         \* the next call of exitToMenu, while exitToMenu runs
  tickCalls,       \* the calls the loop task made in the current tick
  dispatchMode,    \* currentMode as the current tick's switch read it
  tickSent,        \* the messages the loop task sent in the current tick
  tickEvent,       \* the MIDI events modes handed to the sink in the tick
  tickBle,         \* the packets notified on BLE in the current tick
  tickWired,       \* the byte triples written to the UART in the tick
  cbPc,            \* the BLE task's position in its callback
  cbKind,          \* the callback that runs or ran last
  sweep_i,         \* the i of onDisconnect's for loop
  cbSent,          \* the messages the callback has sent
  cbBle,           \* how many packets the callback's sends notified on BLE
  cbWired,         \* how many byte triples they wrote to the UART
  cbCount,         \* the number of sendMIDI calls the callback has made
  connBefore,      \* deviceConnected when the callback began
  tickBegan,       \* a tick began while the current callback was running
  gN,              \* SpecGeom: the registry size probed
  gOp,             \* SpecGeom: the probe made last
  gI, gJ,          \* SpecGeom: the entries probed
  gTouch,          \* SpecGeom: the point tapped
  gHit,            \* SpecGeom: the index handleMenuTouch's loop stopped at
  gMode,           \* SpecGeom: the mode handed to enterMode, or "none"
  gOverlap         \* SpecGeom: some point lies in the cells of gI and gJ

orchVars == << currentMode, touch, initialized, playing, loopPc, enterArg,
               exitIdx, tickCalls, dispatchMode, tickSent, tickEvent, tickBle,
               tickWired >>

cbVars == << cbPc, cbKind, sweep_i, cbSent, cbBle, cbWired, cbCount,
             connBefore >>

geomVars == << gN, gOp, gI, gJ, gTouch, gHit, gMode, gOverlap >>

vars == << currentMode, deviceConnected, touch, screen, menuRects,
           initialized, playing, loopPc, enterArg, exitIdx, tickCalls,
           dispatchMode, tickSent, tickEvent, tickBle, tickWired, cbPc,
           cbKind, sweep_i, cbSent, cbBle, cbWired, cbCount,
           connBefore, tickBegan, gN, gOp, gI, gJ, gTouch, gHit, gMode,
           gOverlap >>

\* the globals as their definitions initialise them, before setup() runs
MainInit ==
  /\ currentMode = MENU
  /\ deviceConnected = FALSE
  /\ touch = [x |-> 0, y |-> 0, pressed |-> FALSE, justPressed |-> FALSE]
  /\ screen = "blank"
  /\ menuRects = << >>
  /\ initialized = {}
  /\ playing = FALSE
  /\ loopPc = "setup"
  /\ enterArg = "none"
  /\ exitIdx = 0
  /\ tickCalls = << >>
  /\ dispatchMode = "none"
  /\ tickSent = {}
  /\ tickEvent = << >>
  /\ tickBle = << >>
  /\ tickWired = << >>
  /\ cbPc = "idle"
  /\ cbKind = "none"
  /\ sweep_i = 0
  /\ cbSent = {}
  /\ cbBle = 0
  /\ cbWired = 0
  /\ cbCount = 0
  /\ connBefore = FALSE
  /\ tickBegan = FALSE

GeomIdle ==
  /\ gN = numApps
  /\ gOp = "none"
  /\ gI = -1
  /\ gJ = -1
  /\ gTouch = [x |-> 0, y |-> 0]
  /\ gHit = -1
  /\ gMode = "none"
  /\ gOverlap = FALSE

Init == MainInit /\ GeomIdle

\* the rectangles drawMenu paints, icon by icon
drawMenu_rects == [ i \in 0 .. (numApps - 1) |-> drawMenu_rect(i) ]

(***************************************************************************)
(* The loop task: setup(), then loop() for ever                            *)
(***************************************************************************)
\* setup() up to advertising->start(): the callbacks are registered and the
\* BLE stack may deliver events from here on
SetupBLE ==
  /\ loopPc = "setup"
  /\ loopPc' = "setupModes"
  /\ UNCHANGED << currentMode, deviceConnected, touch, screen, menuRects,
                  initialized, playing, enterArg, exitIdx, tickCalls,
                  dispatchMode, tickSent, tickEvent, tickBle, tickWired,
                  tickBegan >>
  /\ UNCHANGED cbVars
  /\ UNCHANGED geomVars

\* the rest of setup(): the initialize...Mode() calls, drawMenu, updateStatus
SetupModes ==
  /\ loopPc = "setupModes"
  /\ initialized' = SetupInitialized
  /\ screen' = MENU
  /\ menuRects' = drawMenu_rects
  /\ loopPc' = "updateTouch"
  /\ UNCHANGED << currentMode, deviceConnected, touch, playing, enterArg,
                  exitIdx, tickCalls, dispatchMode, tickSent, tickEvent,
                  tickBle, tickWired, tickBegan >>
  /\ UNCHANGED cbVars
  /\ UNCHANGED geomVars

\* the mutant of updateTouch_justPressed: level instead of rising edge
updateTouch_justPressed_Level(isPressed, wasPressed) == isPressed

\* justPressed := pressed && !previousPressed
updateTouch_justPressed(isPressed, wasPressed) == isPressed /\ ~wasPressed

\* updateTouch(): one sample of the touch surface; the position is read
\* only while the surface is pressed
UpdateTouch ==
  /\ loopPc = "updateTouch"
  /\ \/ \E p \in TouchPoints :
          touch' = [ pressed     |-> TRUE,
                     justPressed |-> updateTouch_justPressed(TRUE, touch.pressed),
                     x           |-> p.x,
                     y           |-> p.y ]
     \/ touch' = [ pressed     |-> FALSE,
                   justPressed |-> updateTouch_justPressed(FALSE, touch.pressed),
                   x           |-> touch.x,
                   y           |-> touch.y ]
  /\ loopPc' = "dispatch"
  /\ tickBegan' = (tickBegan \/ cbPc # "idle")
  /\ UNCHANGED << currentMode, deviceConnected, screen, menuRects,
                  initialized, playing, enterArg, exitIdx, tickCalls,
                  dispatchMode, tickSent, tickEvent, tickBle, tickWired >>
  /\ UNCHANGED cbVars
  /\ UNCHANGED geomVars

\* the mutant of loop_deviceConnected: a transition clears the flag
loop_deviceConnected_Clears(old) == FALSE

\* loop(), handleMenuTouch(), enterMode() and exitToMenu() read
\* deviceConnected (drawMenu, updateStatus) and never assign it
loop_deviceConnected(old) == old

\* the mutant of loop_isMenuCase: the menu branch is taken in every mode
loop_isMenuCase_Always(m) == TRUE

\* case MENU of loop()'s switch
loop_isMenuCase(m) == m = MENU

\* the mutant of loop_menuForwards: a held touch is forwarded too
loop_menuForwards_Held(t) == t.pressed

\* if (touch.justPressed) handleMenuTouch();
loop_menuForwards(t) == t.justPressed

\* case MENU: the hit-tester runs on a justPressed touch; a hit calls
\* enterMode(apps[i].mode), whose first statement sets currentMode
LoopMenu ==
  /\ loopPc = "dispatch"
  /\ loop_isMenuCase(currentMode)
  /\ dispatchMode' = currentMode
  /\ IF loop_menuForwards(touch)
     THEN LET hit == handleMenuTouch_hit(numApps, touch) IN
          IF hit >= 0
          THEN /\ currentMode' = ModeOfEntry(hit)
               /\ enterArg' = ModeOfEntry(hit)
               /\ tickCalls' = << "handleMenuTouch", "enterMode" >>
               /\ loopPc' = "enterDraw"
          ELSE /\ tickCalls' = << "handleMenuTouch" >>
               /\ loopPc' = "delay"
               /\ UNCHANGED << currentMode, enterArg >>
     ELSE /\ tickCalls' = << >>
          /\ loopPc' = "delay"
          /\ UNCHANGED << currentMode, enterArg >>
  /\ deviceConnected' = loop_deviceConnected(deviceConnected)
  /\ UNCHANGED << touch, screen, menuRects, initialized, playing, exitIdx,
                  tickSent, tickEvent, tickBle, tickWired, tickBegan >>
  /\ UNCHANGED cbVars
  /\ UNCHANGED geomVars

\* the rest of enterMode(mode): the switch calls the mode's draw routine,
\* which repaints the display, then updateStatus()
EnterModeDraw ==
  /\ loopPc = "enterDraw"
  /\ screen' = IF enterArg \in EnterCases THEN enterArg ELSE screen
  /\ tickCalls' = tickCalls \o << "drawMode", "updateStatus" >>
  /\ enterArg' = "none"
  /\ loopPc' = "delay"
  /\ deviceConnected' = loop_deviceConnected(deviceConnected)
  /\ UNCHANGED << currentMode, touch, menuRects, initialized, playing,
                  exitIdx, dispatchMode, tickSent, tickEvent, tickBle,
                  tickWired, tickBegan >>
  /\ UNCHANGED cbVars
  /\ UNCHANGED geomVars

\* case M of loop()'s switch: M's per-tick handler runs and does nothing
\* the orchestrator sees (a mode value without a case runs no handler)
ModeTick ==
  /\ loopPc = "dispatch"
  /\ ~loop_isMenuCase(currentMode)
  /\ dispatchMode' = currentMode
  /\ tickCalls' = IF currentMode \in LoopCases
                  THEN << HandlerOf(currentMode) >> ELSE << >>
  /\ loopPc' = "delay"
  /\ UNCHANGED << currentMode, deviceConnected, touch, screen, menuRects,
                  initialized, playing, enterArg, exitIdx, tickSent,
                  tickEvent, tickBle, tickWired,
                  tickBegan >>
  /\ UNCHANGED cbVars
  /\ UNCHANGED geomVars

\* case M: M's handler sends a note through the sink and leaves it scheduled
ModePlay ==
  /\ loopPc = "dispatch"
  /\ ~loop_isMenuCase(currentMode)
  /\ currentMode \in LoopCases
  /\ dispatchMode' = currentMode
  /\ tickCalls' = << HandlerOf(currentMode), "sendMIDI" >>
  /\ tickEvent' = Append(tickEvent, ModeEvent)
  /\ tickSent' = tickSent \cup { ModeMessage }
  /\ tickBle' = tickBle \o sendMIDI_ble(deviceConnected, ModeMessage)
  /\ tickWired' = tickWired \o sendMIDI_wired(ModeMessage)
  /\ playing' = TRUE
  /\ loopPc' = "delay"
  /\ UNCHANGED << currentMode, deviceConnected, touch, screen, menuRects,
                  initialized, enterArg, exitIdx, tickBegan >>
  /\ UNCHANGED cbVars
  /\ UNCHANGED geomVars

\* the mutant of exitToMenu_mode: the mode that was active stays recorded
exitToMenu_mode_Keeps(old) == old

\* currentMode = MENU; the first statement of exitToMenu()
exitToMenu_mode(old) == MENU

\* case M: M's handler triggers the return to the menu: it calls
\* exitToMenu(), whose first statement sets currentMode = MENU
ModeExit ==
  /\ loopPc = "dispatch"
  /\ ~loop_isMenuCase(currentMode)
  /\ currentMode \in LoopCases
  /\ dispatchMode' = currentMode
  /\ tickCalls' = << HandlerOf(currentMode), "exitToMenu" >>
  /\ currentMode' = exitToMenu_mode(currentMode)
  /\ exitIdx' = 1
  /\ loopPc' = "exit"
  /\ deviceConnected' = loop_deviceConnected(deviceConnected)
  /\ UNCHANGED << touch, screen, menuRects, initialized, playing, enterArg,
                  tickSent, tickEvent, tickBle, tickWired, tickBegan >>
  /\ UNCHANGED cbVars
  /\ UNCHANGED geomVars

\* the mutant of exitToMenu_calls: the menu is redrawn before the teardown
exitToMenu_calls_DrawFirst == << "drawMenu", "stopAllModes", "updateStatus" >>

\* the calls of exitToMenu() after currentMode = MENU, in order
exitToMenu_calls == << "stopAllModes", "drawMenu", "updateStatus" >>

\* the next call of exitToMenu(): stopAllModes() stops what the modes have
\* scheduled, drawMenu() repaints the menu
ExitToMenuStep ==
  /\ loopPc = "exit"
  /\ LET call == exitToMenu_calls[exitIdx] IN
       /\ tickCalls' = Append(tickCalls, call)
       /\ playing' = IF call = "stopAllModes" THEN FALSE ELSE playing
       /\ screen' = IF call = "drawMenu" THEN MENU ELSE screen
       /\ menuRects' = IF call = "drawMenu" THEN drawMenu_rects ELSE menuRects
  /\ IF exitIdx = Len(exitToMenu_calls)
     THEN exitIdx' = 0 /\ loopPc' = "delay"
     ELSE exitIdx' = exitIdx + 1 /\ loopPc' = "exit"
  /\ deviceConnected' = loop_deviceConnected(deviceConnected)
  /\ UNCHANGED << currentMode, touch, initialized, enterArg, dispatchMode,
                  tickSent, tickEvent, tickBle, tickWired, tickBegan >>
  /\ UNCHANGED cbVars
  /\ UNCHANGED geomVars

\* delay(20): the tick ends
LoopDelay ==
  /\ loopPc = "delay"
  /\ loopPc' = "updateTouch"
  /\ tickCalls' = << >>
  /\ dispatchMode' = "none"
  /\ tickSent' = {}
  /\ tickEvent' = << >>
  /\ tickBle' = << >>
  /\ tickWired' = << >>
  /\ UNCHANGED << tickBegan, currentMode, deviceConnected, touch, screen, menuRects,
                  initialized, playing, enterArg, exitIdx >>
  /\ UNCHANGED cbVars
  /\ UNCHANGED geomVars

(***************************************************************************)
(* The BLE task: MIDICallbacks::onConnect and onDisconnect                 *)
(***************************************************************************)
\* the mutant of onConnect_value: the flag is toggled instead of set
onConnect_value_Toggle(old) == ~old

\* deviceConnected = true;
onConnect_value(old) == TRUE

\* the mutant of onDisconnect_value: the flag is left as it was
onDisconnect_value_Keeps(old) == old

\* deviceConnected = false;
onDisconnect_value(old) == FALSE

\* the bookkeeping of a callback that begins
CallbackBegins(kind) ==
  /\ cbPc = "idle"
  /\ loopPc # "setup"
  /\ cbKind' = kind
  /\ connBefore' = deviceConnected
  /\ cbPc' = "check"
  /\ sweep_i' = 0
  /\ cbSent' = {}
  /\ cbBle' = 0
  /\ cbWired' = 0
  /\ cbCount' = 0
  /\ tickBegan' = FALSE
  /\ UNCHANGED << screen, menuRects >>
  /\ UNCHANGED orchVars
  /\ UNCHANGED geomVars

\* onConnect is delivered: deviceConnected = true
OnConnect ==
  /\ CallbackBegins("connect")
  /\ deviceConnected' = onConnect_value(deviceConnected)

\* onDisconnect is delivered: deviceConnected = false
OnDisconnect ==
  /\ CallbackBegins("disconnect")
  /\ deviceConnected' = onDisconnect_value(deviceConnected)

\* where a callback goes after updateStatus(): onConnect returns,
\* onDisconnect starts its for loop
AfterStatus(kind) == IF kind = "disconnect" THEN "sweep" ELSE "idle"

\* the mutant of MIDICallbacks_redraws: the menu is redrawn in every mode
MIDICallbacks_redraws_Always(m) == TRUE

\* if (currentMode == MENU) drawMenu(); in onConnect and in onDisconnect
MIDICallbacks_redraws(m) == m = MENU

\* if (currentMode == MENU): the read of currentMode; when it is not MENU
\* the callback goes on to updateStatus()
CallbackCheck ==
  /\ cbPc = "check"
  /\ cbPc' = IF MIDICallbacks_redraws(currentMode)
             THEN "draw" ELSE AfterStatus(cbKind)
  /\ UNCHANGED << deviceConnected, screen, menuRects, tickBegan, cbKind,
                  sweep_i, cbSent, cbBle, cbWired, cbCount, connBefore >>
  /\ UNCHANGED orchVars
  /\ UNCHANGED geomVars

\* drawMenu() from the callback, then updateStatus()
CallbackDrawMenu ==
  /\ cbPc = "draw"
  /\ screen' = MENU
  /\ menuRects' = drawMenu_rects
  /\ cbPc' = AfterStatus(cbKind)
  /\ UNCHANGED << deviceConnected, tickBegan, cbKind, sweep_i, cbSent, cbBle,
                  cbWired,
                  cbCount, connBefore >>
  /\ UNCHANGED orchVars
  /\ UNCHANGED geomVars

\* one iteration of for (int i = 0; i < 128; i++) sendMIDI(0x80, i, 0);
SweepSend ==
  /\ cbPc = "sweep"
  /\ sweep_i < onDisconnect_limit
  /\ cbSent' = cbSent \cup { onDisconnect_message(sweep_i) }
  /\ cbBle' = cbBle
       + Len(sendMIDI_ble(deviceConnected, onDisconnect_message(sweep_i)))
  /\ cbWired' = cbWired
       + Len(sendMIDI_wired(onDisconnect_message(sweep_i)))
  /\ cbCount' = cbCount + 1
  /\ sweep_i' = sweep_i + 1
  /\ UNCHANGED << deviceConnected, screen, menuRects, tickBegan, cbPc,
                  cbKind, connBefore >>
  /\ UNCHANGED orchVars
  /\ UNCHANGED geomVars

\* the for loop ends and onDisconnect returns
SweepEnd ==
  /\ cbPc = "sweep"
  /\ sweep_i >= onDisconnect_limit
  /\ cbPc' = "idle"
  /\ sweep_i' = 0
  /\ UNCHANGED << deviceConnected, screen, menuRects, tickBegan, cbKind,
                  cbSent, cbBle, cbWired, cbCount, connBefore >>
  /\ UNCHANGED orchVars
  /\ UNCHANGED geomVars

Next ==
  \/ SetupBLE \/ SetupModes \/ UpdateTouch \/ LoopMenu \/ EnterModeDraw
  \/ ModeTick \/ ModePlay \/ ModeExit \/ ExitToMenuStep \/ LoopDelay
  \/ OnConnect \/ OnDisconnect \/ CallbackCheck \/ CallbackDrawMenu
  \/ SweepSend \/ SweepEnd

Spec == Init /\ [][Next]_vars

(***************************************************************************)
(* SpecGeom: the menu grid as a function of the registry size.  A registry *)
(* of n entries (1 .. MAX_APPS) is laid out; a point is tapped in Menu     *)
(* with justPressed set and handleMenuTouch's loop runs over the n cells.  *)
(***************************************************************************)
\* the points of a cell as isButtonPressed sees it: both edges included
ClosedPoints(r) == { [x |-> px, y |-> py] : px \in r.x .. (r.x + r.w),
                                            py \in r.y .. (r.y + r.h) }

\* handleMenuTouch on a tap at t over n entries: the index its loop stops at
\* and the mode it hands to enterMode (apps[] holds numApps entries)
GeomTap(op, i, t) ==
  LET hit == handleMenuTouch_hit(gN, t) IN
    /\ gOp' = op
    /\ gI' = i
    /\ gJ' = -1
    /\ gTouch' = t
    /\ gHit' = hit
    /\ gMode' = IF hit >= 0 /\ hit < numApps THEN ModeOfEntry(hit) ELSE "none"
    /\ gOverlap' = FALSE
    /\ UNCHANGED gN

GeomInit ==
  /\ MainInit
  /\ gN \in 1 .. MAX_APPS
  /\ gOp = "none"
  /\ gI = -1
  /\ gJ = -1
  /\ gTouch = [x |-> 0, y |-> 0]
  /\ gHit = -1
  /\ gMode = "none"
  /\ gOverlap = FALSE

mainVars == << currentMode, deviceConnected, touch, screen, menuRects,
               initialized, playing, loopPc, enterArg, exitIdx, tickCalls,
               dispatchMode, tickSent, tickEvent, tickBle, tickWired, cbPc,
               cbKind, sweep_i, cbSent, cbBle, cbWired,
               cbCount, connBefore, tickBegan >>

\* a tap on the exact centre of the cell of entry i
GeomTapCentre ==
  /\ gOp = "none"
  /\ \E i \in 0 .. (gN - 1) :
       GeomTap("centre", i, Centre(handleMenuTouch_rect(i)))
  /\ UNCHANGED mainVars

\* a tap on a point of the display grid
GeomTapPoint ==
  /\ gOp = "none"
  /\ \E p \in GridPoints : GeomTap("point", -1, p)
  /\ UNCHANGED mainVars

\* the cells of two different entries are compared point by point
GeomPair ==
  /\ gOp = "none"
  /\ \E i \in 0 .. (gN - 1), j \in 0 .. (gN - 1) :
       /\ i # j
       /\ gI' = i
       /\ gJ' = j
       /\ gOverlap' =
            ( \/ \E p \in ClosedPoints(handleMenuTouch_rect(i)) :
                   isButtonPressed(p, handleMenuTouch_rect(j))
              \/ Pixels(drawMenu_rect(i)) \cap Pixels(drawMenu_rect(j)) # {} )
  /\ gOp' = "pair"
  /\ gHit' = -1
  /\ gMode' = "none"
  /\ UNCHANGED << gN, gTouch >>
  /\ UNCHANGED mainVars

\* the probe is over: the menu waits for the next one
GeomReset ==
  /\ gOp # "none"
  /\ gOp' = "none"
  /\ gI' = -1
  /\ gJ' = -1
  /\ gTouch' = [x |-> 0, y |-> 0]
  /\ gHit' = -1
  /\ gMode' = "none"
  /\ gOverlap' = FALSE
  /\ UNCHANGED gN
  /\ UNCHANGED mainVars

GeomNext == GeomTapCentre \/ GeomTapPoint \/ GeomPair \/ GeomReset

SpecGeom == GeomInit /\ [][GeomNext]_vars

(***************************************************************************)
(* SpecSink: the sink alone.  A mode hands one MIDI event to the sink, for *)
(* every kind, channel and a sample of notes and velocities, while the     *)
(* callbacks set and clear deviceConnected.                                *)
(***************************************************************************)
SinkNotes == { 0, 60, 127 }

SinkVelocities == { 0, 127 }

SinkEvents ==
  [ kind : { NOTE_ON, NOTE_OFF }, channel : 0 .. 15, note : SinkNotes,
    velocity : SinkVelocities ]

\* what the sink neither reads nor writes
sinkRest == << currentMode, touch, screen, menuRects, initialized, playing,
               loopPc, enterArg, exitIdx, tickCalls, dispatchMode, cbPc,
               cbKind, sweep_i, cbSent, cbBle, cbWired, cbCount, connBefore,
               tickBegan >>

\* deviceConnected = true;
SinkConnect ==
  /\ deviceConnected' = onConnect_value(deviceConnected)
  /\ UNCHANGED << tickSent, tickEvent, tickBle, tickWired >>
  /\ UNCHANGED sinkRest
  /\ UNCHANGED geomVars

\* deviceConnected = false;
SinkDisconnect ==
  /\ deviceConnected' = onDisconnect_value(deviceConnected)
  /\ UNCHANGED << tickSent, tickEvent, tickBle, tickWired >>
  /\ UNCHANGED sinkRest
  /\ UNCHANGED geomVars

\* a mode's handler hands the event e to the sink: one sendMIDI
SinkSend ==
  /\ tickEvent = << >>
  /\ \E e \in SinkEvents :
       /\ tickEvent' = << e >>
       /\ tickSent' = { sendNote_message(e) }
       /\ tickBle' = sendMIDI_ble(deviceConnected, sendNote_message(e))
       /\ tickWired' = sendMIDI_wired(sendNote_message(e))
  /\ UNCHANGED deviceConnected
  /\ UNCHANGED sinkRest
  /\ UNCHANGED geomVars

\* the tick ends
SinkReset ==
  /\ tickEvent # << >>
  /\ tickEvent' = << >>
  /\ tickSent' = {}
  /\ tickBle' = << >>
  /\ tickWired' = << >>
  /\ UNCHANGED deviceConnected
  /\ UNCHANGED sinkRest
  /\ UNCHANGED geomVars

SinkNext == SinkConnect \/ SinkDisconnect \/ SinkSend \/ SinkReset

SpecSink == Init /\ [][SinkNext]_vars

(***************************************************************************)
(* Properties                                                              *)
(***************************************************************************)
\* the place of the first c in seq, 0 when there is none
RECURSIVE PosFrom(_, _, _)
PosFrom(seq, c, k) ==
  IF k > Len(seq) THEN 0
  ELSE IF seq[k] = c THEN k
  ELSE PosFrom(seq, c, k + 1)

Pos(seq, c) == PosFrom(seq, c, 1)

\* a disconnect callback has returned, or a tick that began while it ran
\* has ended
DisconnectDeadline ==
  /\ cbKind = "disconnect"
  /\ \/ cbPc = "idle"
     \/ tickBegan /\ loopPc = "updateTouch"

\* C1 as stated: a disconnect event results in one NoteOff for each of the
\* 128 notes on every one of the 16 MIDI channels (128 x 16 sends), all
\* issued before the next tick completes.
C1_SweepEveryChannelBeforeTickEnds ==
  DisconnectDeadline =>
    /\ cbCount = 128 * 16
    /\ \A ch \in 0 .. 15, n \in 0 .. 127 : << 128 + ch, n, 0 >> \in cbSent

\* C1 amended: whatever mode is active, an onDisconnect callback sends NoteOff
\* with status 0x80 (channel 0) and velocity 0 for the notes 0, 1, 2, ... in
\* order, nothing else, and has sent exactly the 128 of them when it returns.
C1_SweepChannelZeroByReturn ==
  cbKind = "disconnect" =>
    /\ cbCount <= 128
    /\ cbSent = { << 128, n, 0 >> : n \in 0 .. (cbCount - 1) }
    /\ cbPc \in { "check", "draw" } => cbCount = 0
    /\ cbPc = "idle" => cbCount = 128

\* C1 witness: a sweep has run to its end while a mode was active and a tick
\* began in the meantime
C1_Witness ==
  /\ cbKind = "disconnect"
  /\ cbPc = "idle"
  /\ cbCount = 128
  /\ currentMode = "GRID_PIANO"
  /\ tickBegan

\* C2 as stated: an onDisconnect delivered while deviceConnected is already
\* false sends no NoteOff, and one delivered while it is true has sent all
\* 128 when it returns.
C2_DuplicateDisconnectSendsNothing ==
  /\ (cbKind = "disconnect" /\ ~connBefore) => cbCount = 0
  /\ (cbKind = "disconnect" /\ connBefore /\ cbPc = "idle") => cbCount = 128

\* C3: deviceConnected is true from an onConnect on and false from an
\* onDisconnect on, until the next event; an event delivered when the flag
\* already has its value leaves the flag as it was.
C3_ConnectionStateFollowsEvent ==
  /\ cbKind = "connect" => deviceConnected = TRUE
  /\ cbKind = "disconnect" => deviceConnected = FALSE
  /\ (cbKind = "connect" /\ connBefore = TRUE) => deviceConnected = connBefore
  /\ (cbKind = "disconnect" /\ connBefore = FALSE) => deviceConnected = connBefore

\* C3 witness: a second onConnect in a row has returned, a tick later
C3_Witness ==
  /\ cbKind = "connect"
  /\ connBefore = TRUE
  /\ cbPc = "idle"
  /\ tickBegan
  /\ deviceConnected = TRUE

\* C4: whenever currentMode changes, the old or the new value is MENU, and
\* enterMode starts only in a tick that read currentMode = MENU.
C4_EveryChangePassesThroughMenu ==
  [][ /\ currentMode' # currentMode =>
           (currentMode = MENU \/ currentMode' = MENU)
      /\ (loopPc' = "enterDraw" /\ loopPc # "enterDraw") =>
           (currentMode = MENU /\ dispatchMode' = MENU) ]_vars

\* C4 witness: enterMode is running for a mode entered from the menu
C4_Witness ==
  /\ loopPc = "enterDraw"
  /\ dispatchMode = MENU
  /\ currentMode = "PHYSICS_DROP"
  /\ screen = MENU

\* C5: currentMode is MENU while setup() runs, and is always MENU or the mode
\* of a registry entry.
C5_CurrentModeIsMenuOrRegistered ==
  /\ loopPc \in { "setup", "setupModes" } => currentMode = MENU
  /\ currentMode \in { MENU } \cup { apps[k].mode : k \in 1 .. numApps }

\* C5 witness: the mode of the last registry entry is active
C5_Witness ==
  /\ currentMode = "LFO"
  /\ loopPc = "delay"
  /\ dispatchMode = "LFO"

\* the handlers loop()'s switch can dispatch to
Handlers ==
  { "handleMenuTouch" } \cup { HandlerOf(apps[k].mode) : k \in 1 .. numApps }

IsHandler(c) == c \in Handlers

\* the handlers dispatched in the current tick, in order
Dispatched == SelectSeq(tickCalls, IsHandler)

\* C6: once a tick has dispatched, the handlers it ran are: in Menu, the
\* hit-tester alone when justPressed is set and nothing otherwise (no call,
\* no transition); in mode M, M's handler alone, whatever the touch state.
C6_OneHandlerPerTick ==
  loopPc \in { "enterDraw", "exit", "delay" } =>
    /\ dispatchMode \in { MENU } \cup { apps[k].mode : k \in 1 .. numApps }
    /\ dispatchMode = MENU =>
         /\ touch.justPressed => Dispatched = << "handleMenuTouch" >>
         /\ ~touch.justPressed =>
              /\ tickCalls = << >>
              /\ currentMode = MENU
              /\ loopPc = "delay"
    /\ dispatchMode # MENU =>
         /\ Dispatched = << HandlerOf(dispatchMode) >>
         /\ tickCalls[1] = HandlerOf(dispatchMode)

\* C6 witness: a touch held on an icon in Menu ends its tick with no call
C6_Witness ==
  /\ loopPc = "delay"
  /\ dispatchMode = MENU
  /\ touch.pressed
  /\ ~touch.justPressed
  /\ isButtonPressed(touch, handleMenuTouch_rect(7))
  /\ currentMode = MENU

\* the entries whose cell, as the hit-tester sees it, holds the point t
CellsAt(n, t) ==
  { i \in 0 .. (n - 1) : isButtonPressed(t, handleMenuTouch_rect(i)) }

Least(S) == CHOOSE m \in S : \A k \in S : m <= k

\* C7: for every registry size 1 .. MAX_APPS, a tap on the exact centre of
\* the cell of entry i stops the hit-tester at i and hands the mode of
\* apps[i] to enterMode (for 10 entries the centre of entry 7, row 1 col 2,
\* is (160, 148) and enters GRID_PIANO); a tap stops at the lowest entry
\* whose cell holds the point, and a tap in no cell enters nothing.
C7_CentreTapSelectsEntry ==
  /\ gOp = "centre" =>
       /\ gTouch = [x |-> 64 + 48 * (gI % 5), y |-> 85 + 63 * (gI \div 5)]
       /\ gHit = gI
       /\ gI < numApps => gMode = apps[gI + 1].mode
  /\ (gOp = "centre" /\ gN = 10 /\ gI = 7) =>
       /\ gTouch = [x |-> 160, y |-> 148]
       /\ gMode = "GRID_PIANO"
  /\ gOp \in { "centre", "point" } =>
       IF CellsAt(gN, gTouch) = {}
       THEN gHit = -1 /\ gMode = "none"
       ELSE gHit = Least(CellsAt(gN, gTouch))

\* C7 witness: with 10 entries the centre of entry 7 was tapped
C7_Witness ==
  /\ gOp = "centre"
  /\ gN = 10
  /\ gI = 7
  /\ gHit = 7
  /\ gMode = "GRID_PIANO"

\* C8: for every registry size 1 .. MAX_APPS the cells of two different
\* entries share no point, as drawn and as hit-tested, and no point of the
\* display grid lies in two cells.
C8_CellsDoNotOverlap ==
  /\ gOp = "pair" => ~gOverlap
  /\ gOp = "point" => Cardinality(CellsAt(gN, gTouch)) <= 1

\* C8 witness: with 12 entries, two neighbours of the last row were compared
C8_Witness ==
  /\ gOp = "pair"
  /\ gN = 12
  /\ gI = 10
  /\ gJ = 11
  /\ ~gOverlap

\* the touch point lies on a pixel of the drawn rectangle r
OnPixel(t, r) ==
  /\ t.x >= r.x /\ t.x <= r.x + r.w - 1
  /\ t.y >= r.y /\ t.y <= r.y + r.h - 1

\* C9: the rectangle drawMenu painted for each icon i of 0 .. numApps-1 is
\* the rectangle handleMenuTouch tests for entry i, and a justPressed tap in
\* Menu on a pixel of the icon painted for i enters the mode of apps[i].
C9_DrawnCellIsTestedCell ==
  /\ DOMAIN menuRects # {} =>
       /\ DOMAIN menuRects = 0 .. (numApps - 1)
       /\ \A i \in 0 .. (numApps - 1) : menuRects[i] = handleMenuTouch_rect(i)
  /\ ( /\ loopPc \in { "enterDraw", "delay" }
       /\ dispatchMode = MENU
       /\ touch.justPressed ) =>
       \A i \in DOMAIN menuRects :
         OnPixel(touch, menuRects[i]) =>
           /\ Pos(tickCalls, "enterMode") = 2
           /\ currentMode = apps[i + 1].mode

\* C9 witness: the icon painted for entry 7 was tapped and its mode entered
C9_Witness ==
  /\ loopPc = "enterDraw"
  /\ DOMAIN menuRects = 0 .. (numApps - 1)
  /\ OnPixel(touch, menuRects[7])
  /\ currentMode = "GRID_PIANO"

\* C10: once a mode's handler has called exitToMenu, currentMode is MENU;
\* the loop task's drawMenu comes after its stopAllModes, with nothing a
\* mode scheduled still running; and when the tick ends both have run and
\* the menu is on the display.
C10_TeardownBeforeMenuRedraw ==
  Pos(tickCalls, "exitToMenu") # 0 =>
    /\ dispatchMode # MENU
    /\ currentMode = MENU
    /\ Pos(tickCalls, "drawMenu") # 0 =>
         /\ Pos(tickCalls, "stopAllModes") # 0
         /\ Pos(tickCalls, "stopAllModes") < Pos(tickCalls, "drawMenu")
         /\ ~playing
    /\ loopPc = "delay" =>
         /\ Pos(tickCalls, "stopAllModes") # 0
         /\ Pos(tickCalls, "drawMenu") # 0
         /\ screen = MENU

\* C10 witness: a mode with a note scheduled returned to the menu: the
\* teardown has run and the menu has been redrawn
C10_Witness ==
  /\ loopPc = "delay"
  /\ dispatchMode = "KEYBOARD"
  /\ Pos(tickCalls, "exitToMenu") = 2
  /\ Pos(tickCalls, "drawMenu") = 4
  /\ currentMode = MENU
  /\ screen = MENU

\* what the orchestrator holds: the active mode and how far enterMode and
\* exitToMenu have run, with what the modes have scheduled and the display
OrchestratorState ==
  [ mode |-> currentMode, entering |-> enterArg, exiting |-> exitIdx,
    scheduled |-> playing, shown |-> screen ]

\* the orchestrator at rest in the menu
OrchestratorAtMenu ==
  [ mode |-> MENU, entering |-> "none", exiting |-> 0,
    scheduled |-> FALSE, shown |-> MENU ]

\* C11: the state the orchestrator holds when handleMenuTouch enters a mode
\* M from the menu is the state it holds again when exitToMenu has returned
\* from M: currentMode is MENU, no call is in progress, nothing is scheduled
\* and nothing records which mode was visited.
C11_RoundTripRestoresOrchestrator ==
  [][ /\ (loopPc = "dispatch" /\ loopPc' = "enterDraw") =>
           OrchestratorState = OrchestratorAtMenu
      /\ (loopPc = "exit" /\ loopPc' = "delay") =>
           OrchestratorState' = OrchestratorAtMenu ]_vars

\* C11 witness: PHYSICS_DROP was entered from the menu and has returned
C11_Witness ==
  /\ loopPc = "delay"
  /\ dispatchMode = "PHYSICS_DROP"
  /\ Pos(tickCalls, "exitToMenu") = 2
  /\ Pos(tickCalls, "updateStatus") = 5
  /\ OrchestratorState = OrchestratorAtMenu

\* a step of the BLE task
CallbackStep == << cbPc, sweep_i >> # << cbPc, sweep_i >>'

\* C12: a callback, onConnect or onDisconnect, goes on to drawMenu exactly
\* when the currentMode it reads is MENU; a callback that read an instrument
\* mode paints nothing, and no other step of a callback touches the display.
C12_RedrawIffMenu ==
  [][ /\ (cbPc = "check" /\ cbPc' # "check") =>
           (cbPc' = "draw" <=> currentMode = MENU)
      /\ (cbPc' = "draw" /\ cbPc # "draw") => cbPc = "check"
      /\ (cbPc = "draw" /\ cbPc' # "draw") =>
           (screen' = MENU /\ menuRects' = drawMenu_rects)
      /\ (CallbackStep /\ cbPc # "draw") =>
           (screen' = screen /\ menuRects' = menuRects) ]_vars

\* C12 witness: an onConnect ran from start to end between two ticks of
\* GRID_PIANO and the mode's display is untouched
C12_Witness ==
  /\ cbKind = "connect"
  /\ cbPc = "idle"
  /\ ~tickBegan
  /\ loopPc = "updateTouch"
  /\ currentMode = "GRID_PIANO"
  /\ screen = "GRID_PIANO"

\* a step of the loop task
LoopStep == << loopPc, exitIdx >> # << loopPc, exitIdx >>'

\* C13: deviceConnected changes only in the first statement of a connection
\* callback, and no step of the loop task (a tick, enterMode, exitToMenu)
\* changes it; currentMode changes only in the first statement of enterMode
\* or of exitToMenu, and no step of a callback changes it.
C13_SingleWriter ==
  [][ /\ deviceConnected' # deviceConnected =>
           (cbPc = "idle" /\ cbPc' = "check")
      /\ LoopStep => deviceConnected' = deviceConnected
      /\ currentMode' # currentMode =>
           (loopPc = "dispatch" /\ loopPc' \in { "enterDraw", "exit" })
      /\ CallbackStep => currentMode' = currentMode ]_vars

\* C13 witness: exitToMenu has just written currentMode while onConnect has
\* just written deviceConnected
C13_Witness ==
  /\ cbKind = "connect"
  /\ cbPc = "check"
  /\ deviceConnected
  /\ ~connBefore
  /\ loopPc = "exit"
  /\ exitIdx = 1
  /\ currentMode = MENU

\* the entries of apps[] whose mode is m
EntriesOf(m) == { k \in 1 .. Len(apps) : apps[k].mode = m }

\* C14: apps[] holds at most MAX_APPS = 12 entries, numApps is the number of
\* entries of apps[], every entry's mode is an AppMode value other than MENU
\* and every such value is the mode of exactly one entry; the menu, once
\* drawn, shows one icon per entry.
C14_RegistryWellFormed ==
  /\ Len(apps) <= 12
  /\ MAX_APPS = 12
  /\ numApps = Len(apps)
  /\ \A k \in 1 .. Len(apps) : apps[k].mode \in AppMode \ { MENU }
  /\ \A m \in AppMode \ { MENU } : Cardinality(EntriesOf(m)) = 1
  /\ DOMAIN menuRects # {} => Cardinality(DOMAIN menuRects) = Len(apps)

\* C14 witness: setup() has drawn the menu over the registry and the first
\* tick is about to begin
C14_Witness ==
  /\ loopPc = "updateTouch"
  /\ cbKind = "none"
  /\ screen = MENU
  /\ Cardinality(DOMAIN menuRects) = 10
  /\ ~touch.pressed

\* the status byte of an event: 0x90 | channel for NoteOn, 0x80 | channel
\* for NoteOff, with channel in 0 .. 15
StatusOf(e) == IF e.kind = 144 THEN 144 + e.channel ELSE 128 + e.channel

\* C16: a send made while deviceConnected is true notifies exactly one
\* 5-byte packet [0x80, 0x80, status, note, velocity] on BLE and writes
\* exactly one triple [status, note, velocity] to the UART, with status
\* 0x90 | channel for NoteOn and 0x80 | channel for NoteOff; NoteOn on
\* channel 0, note 60, velocity 127 gives [0x80, 0x80, 0x90, 60, 127] and
\* [0x90, 60, 127].
C16_SendFansOutToBothTransports ==
  [][ (tickEvent = << >> /\ tickEvent' # << >> /\ deviceConnected) =>
        LET e == tickEvent'[1] IN
          /\ tickSent' = { << StatusOf(e), e.note, e.velocity >> }
          /\ tickBle' = << << 128, 128, StatusOf(e), e.note, e.velocity >> >>
          /\ tickWired' = << << StatusOf(e), e.note, e.velocity >> >>
          /\ ( e.kind = 144 /\ e.channel = 0 /\ e.note = 60
               /\ e.velocity = 127 ) =>
               /\ tickBle' = << << 128, 128, 144, 60, 127 >> >>
               /\ tickWired' = << << 144, 60, 127 >> >> ]_vars

\* C16 witness: NoteOn, channel 0, note 60, velocity 127 was sent while
\* connected and went out once on each transport
C16_Witness ==
  /\ deviceConnected
  /\ tickEvent =
       << [ kind |-> 144, channel |-> 0, note |-> 60, velocity |-> 127 ] >>
  /\ tickBle = << << 128, 128, 144, 60, 127 >> >>
  /\ tickWired = << << 144, 60, 127 >> >>

\* C17 as stated: whenever no callback is running and the loop task is
\* between ticks, the display shows the menu exactly when currentMode is
\* MENU.
C17_ScreenFollowsCurrentMode ==
  (cbPc = "idle" /\ loopPc = "updateTouch") =>
    (screen = MENU <=> currentMode = MENU)

\* C18: justPressed is set by updateTouch exactly on the sample where
\* pressed goes from false to true, and the touch state changes nowhere
\* else; handleMenuTouch runs, and a mode is entered, only in a tick whose
\* sample has justPressed set, so a touch held over several ticks, or still
\* held when a mode has returned to the menu, selects nothing until it is
\* released and pressed again.
C18_OneHitTestPerPress ==
  [][ /\ (loopPc = "updateTouch" /\ loopPc' = "dispatch") =>
           (touch'.justPressed <=> (touch'.pressed /\ ~touch.pressed))
      /\ loopPc # "updateTouch" => touch' = touch
      /\ (loopPc = "dispatch" /\ Pos(tickCalls', "handleMenuTouch") # 0) =>
           touch.justPressed
      /\ (loopPc = "dispatch" /\ loopPc' = "enterDraw") => touch.justPressed
      /\ ( /\ loopPc = "dispatch"
           /\ currentMode = MENU
           /\ touch.pressed
           /\ ~touch.justPressed ) =>
           (currentMode' = MENU /\ (LoopStep => tickCalls' = << >>)) ]_vars

\* C18 witness: a touch held on the icon of PHYSICS_DROP while the menu is
\* active ends its tick with the hit-tester not run
C18_Witness ==
  /\ loopPc = "delay"
  /\ dispatchMode = MENU
  /\ currentMode = MENU
  /\ touch.pressed
  /\ ~touch.justPressed
  /\ isButtonPressed(touch, handleMenuTouch_rect(3))
  /\ tickCalls = << >>

\* C19: from the first statement of onDisconnect until its for loop has
\* ended deviceConnected is false; none of the callback's sends is notified
\* on BLE and each writes its three bytes to the UART, 128 of them by the
\* time the callback returns.
C19_SweepGoesToWiredOnly ==
  /\ (cbKind = "disconnect" /\ cbPc # "idle") => ~deviceConnected
  /\ cbKind = "disconnect" =>
       /\ cbBle = 0
       /\ cbWired = cbCount
       /\ cbPc = "idle" => cbWired = 128

\* C19 witness: a peer was connected, onDisconnect has swept all 128 notes
\* and returned
C19_Witness ==
  /\ cbKind = "disconnect"
  /\ connBefore
  /\ cbPc = "idle"
  /\ cbBle = 0
  /\ cbWired = 128
  /\ ~deviceConnected

\* C20 as stated: once setup() has drawn the menu every registered mode is
\* initialised, the active mode is always an initialised one, and every
\* registered mode has a case in enterMode's and in loop's switch.
C20_RegisteredModesAreInitialised ==
  /\ screen # "blank" => RegisteredModes \subseteq initialized
  /\ currentMode # MENU => currentMode \in initialized
  /\ RegisteredModes \subseteq EnterCases
  /\ RegisteredModes \subseteq LoopCases

====
